---- MODULE Spec2Model ----
(***************************************************************************)
(* Model of src/project/src/lib/perceptual-hash.ts: the perceptual hash    *)
(* (computeDCTHash), the Hamming matcher (calculateHammingDistance,        *)
(* findSimilarArtwork), the screenshot heuristic (detectScreenshot) and    *)
(* the feature extractor (computeColorHistogram, computeEdgeFeatures).     *)
(*                                                                         *)
(* Strings are sequences of one-character strings.  A JavaScript Number    *)
(* that holds a non-negative integer is the sequence of its binary digits, *)
(* most significant first, without leading zeros (<<>> is 0); parseInt     *)
(* rounds to the 53-bit significand of an IEEE double, as the engine does. *)
(***************************************************************************)
EXTENDS Integers, Sequences, FiniteSets, TLC

VARIABLES pc,
          dctCoeffs, hexHash,
          hash1, hash2, distance,
          perceptualHash, allArtworks, cursor, closestMatch, searchResult,
          img, event, promise, verdict, detectionScore, reasons,
          imageData, colorHistogram, edgeFeatures

hashVars    == <<dctCoeffs, hexHash>>
hammingVars == <<hash1, hash2, distance>>
searchVars  == <<perceptualHash, allArtworks, cursor, closestMatch, searchResult>>
shotVars    == <<img, event, promise, verdict, detectionScore, reasons>>
featVars    == <<imageData, colorHistogram, edgeFeatures>>
vars        == <<pc, hashVars, hammingVars, searchVars, shotVars, featVars>>

(***************************************************************************)
(* Strings and Numbers                                                     *)
(***************************************************************************)
HexDigits == <<"0", "1", "2", "3", "4", "5", "6", "7",
               "8", "9", "a", "b", "c", "d", "e", "f">>

HexChars == {HexDigits[i] : i \in 1..16}

\* Number of significand bits of a JavaScript Number (IEEE 754 binary64).
MantissaBits == 53

Repeat(x, n) == [i \in 1..n |-> x]

Max(a, b) == IF a >= b THEN a ELSE b

Min(a, b) == IF a <= b THEN a ELSE b

Abs(a) == IF a >= 0 THEN a ELSE -a

\* String.prototype.padStart(n, ch)
PadStart(s, n, ch) == IF Len(s) >= n THEN s ELSE Repeat(ch, n - Len(s)) \o s

StripLeadingZeros(b) ==
  IF \A i \in 1..Len(b) : b[i] = 0
    THEN <<>>
    ELSE LET f == CHOOSE i \in 1..Len(b) : b[i] = 1 /\ \A j \in 1..(i - 1) : b[j] = 0
         IN  SubSeq(b, f, Len(b))

\* m + 1 on a binary digit sequence
Increment(m) ==
  IF \A i \in 1..Len(m) : m[i] = 1
    THEN <<1>> \o Repeat(0, Len(m))
    ELSE LET p == CHOOSE i \in 1..Len(m) : m[i] = 0 /\ \A j \in (i + 1)..Len(m) : m[j] = 1
         IN  [i \in 1..Len(m) |-> IF i < p THEN m[i] ELSE IF i = p THEN 1 ELSE 0]

\* The Number nearest to the integer b (round to nearest, ties to even).
RoundToDouble(b) ==
  IF Len(b) <= MantissaBits
    THEN b
    ELSE LET m      == SubSeq(b, 1, MantissaBits)
             guard  == b[MantissaBits + 1]
             sticky == \E i \in (MantissaBits + 2)..Len(b) : b[i] = 1
             up     == guard = 1 /\ (sticky \/ m[MantissaBits] = 1)
         IN  (IF up THEN Increment(m) ELSE m) \o Repeat(0, Len(b) - MantissaBits)

HexValue(c) == CHOOSE v \in 0..15 : HexDigits[v + 1] = c

\* the four binary digits of a nibble value
NibbleBits(v) == <<(v \div 8) % 2, (v \div 4) % 2, (v \div 2) % 2, v % 2>>

\* parseInt(s, 2) for a string of binary digits
ParseIntBinary(s) ==
  RoundToDouble(StripLeadingZeros([i \in 1..Len(s) |-> IF s[i] = "1" THEN 1 ELSE 0]))

\* parseInt(s, 16) for a string of hexadecimal digits
ParseIntHex(s) ==
  RoundToDouble(StripLeadingZeros(
    [i \in 1..(4 * Len(s)) |-> NibbleBits(HexValue(s[((i - 1) \div 4) + 1]))[((i - 1) % 4) + 1]]))

\* Number.prototype.toString(2)
ToStringBinary(n) ==
  IF n = <<>> THEN <<"0">> ELSE [i \in 1..Len(n) |-> IF n[i] = 1 THEN "1" ELSE "0"]

\* Number.prototype.toString(16)
ToStringHex(n) ==
  IF n = <<>>
    THEN <<"0">>
    ELSE LET k == (Len(n) + 3) \div 4
             p == Repeat(0, 4 * k - Len(n)) \o n
         IN  [i \in 1..k |->
               HexDigits[8 * p[4 * i - 3] + 4 * p[4 * i - 2] + 2 * p[4 * i - 1] + p[4 * i] + 1]]

(***************************************************************************)
(* computeDCTHash, from the 64 coefficients on                             *)
(***************************************************************************)
\* dctSize * dctSize coefficients
NumCoeffs == 64

\* characters of the hexadecimal hash
HashLen == 16

\* largest coefficient value of the inputs
CoeffMax == 2

\* xs.sort((a, b) => a - b)[k], k counted from 0
SortedAt(xs, k) ==
  CHOOSE v \in {xs[i] : i \in 1..Len(xs)} :
    /\ Cardinality({i \in 1..Len(xs) : xs[i] < v}) <= k
    /\ k < Cardinality({i \in 1..Len(xs) : xs[i] <= v})

\* dctCoeffs.slice(1).sort(...)[Math.floor(dctCoeffs.length / 2)]
MedianCoeff(coeffs) == SortedAt(Tail(coeffs), Len(coeffs) \div 2)

\* the bit emitted for one coefficient, with >= in place of >
CoeffBitAtLeast(c, median) == IF c >= median THEN "1" ELSE "0"

\* dctCoeffs[i] > medianCoeff ? '1' : '0'
CoeffBit(c, median) == IF c > median THEN "1" ELSE "0"

HashBits(coeffs) ==
  LET medianCoeff == MedianCoeff(coeffs)
  IN  [i \in 1..Len(coeffs) |-> CoeffBit(coeffs[i], medianCoeff)]

computeDCTHash(coeffs) ==
  PadStart(ToStringHex(ParseIntBinary(HashBits(coeffs))), HashLen, "0")

\* coefficient lists made of three runs of equal values
Runs(i, j, a, b, c) ==
  [n \in 1..NumCoeffs |-> IF n <= i THEN a ELSE IF n <= j THEN b ELSE c]

DctInputs ==
  {Runs(i, j, a, b, c) : i \in {0, 1, 10, 11, 32}, j \in 33..NumCoeffs,
                         a \in 0..CoeffMax, b \in 0..CoeffMax, c \in 0..CoeffMax}

(***************************************************************************)
(* calculateHammingDistance                                                *)
(***************************************************************************)
\* width of the padded binary expansion
NumBits == 64

\* the sentinel returned for strings of different lengths (Infinity)
Infinity == 1000000

\* for (i < bin1.length) if (bin1[i] !== bin2[i]) distance++
\* (bin2[i] is undefined past the end of bin2, and differs from any character)
CountDiffering(bin1, bin2) ==
  Cardinality({i \in 1..Len(bin1) : i > Len(bin2) \/ bin1[i] # bin2[i]})

\* the function with its length guard inverted (=== in place of !==)
HammingDistanceGuardInverted(h1, h2) ==
  IF Len(h1) = Len(h2)
    THEN Infinity
    ELSE CountDiffering(PadStart(ToStringBinary(ParseIntHex(h1)), NumBits, "0"),
                        PadStart(ToStringBinary(ParseIntHex(h2)), NumBits, "0"))

calculateHammingDistance(h1, h2) ==
  IF Len(h1) # Len(h2)
    THEN Infinity
    ELSE CountDiffering(PadStart(ToStringBinary(ParseIntHex(h1)), NumBits, "0"),
                        PadStart(ToStringBinary(ParseIntHex(h2)), NumBits, "0"))

\* hexadecimal strings: a head digit, a body digit repeated, a tail digit
Pattern(a, b, c, len) ==
  [i \in 1..len |-> IF i = 1 THEN a ELSE IF i = len THEN c ELSE b]

PatternDigits == {"0", "1", "7", "8", "f"}

HammingInputs ==
  {Pattern(a, b, c, HashLen) : a \in PatternDigits, b \in PatternDigits, c \in PatternDigits}
    \cup {Pattern("0", "f", "1", HashLen - 1), Pattern("f", "f", "f", HashLen + 1)}

(***************************************************************************)
(* The values of the variables an operation does not use                   *)
(***************************************************************************)
HashIdle    == dctCoeffs = <<>> /\ hexHash = <<>>

HammingIdle == hash1 = <<>> /\ hash2 = <<>> /\ distance = 0

SearchIdle  == /\ perceptualHash = <<>>
               /\ allArtworks = <<>>
               /\ cursor = 0
               /\ closestMatch = <<>>
               /\ searchResult = <<>>

ShotIdle    == /\ img = <<>>
               /\ event = "none"
               /\ promise = "none"
               /\ verdict = <<>>
               /\ detectionScore = 0
               /\ reasons = <<>>

FeatIdle    == imageData = <<>> /\ colorHistogram = <<>> /\ edgeFeatures = <<>>

(***************************************************************************)
(* Hashing: a call of computeDCTHash on a list of coefficients             *)
(***************************************************************************)
InitHash ==
  /\ pc = "hash"
  /\ dctCoeffs \in DctInputs
  /\ hexHash = <<>>
  /\ HammingIdle /\ SearchIdle /\ ShotIdle /\ FeatIdle

ComputeDCTHash ==
  /\ pc = "hash"
  /\ hexHash' = computeDCTHash(dctCoeffs)
  /\ pc' = "hashed"
  /\ UNCHANGED <<dctCoeffs, hammingVars, searchVars, shotVars, featVars>>

NextHash == ComputeDCTHash

SpecHash == InitHash /\ [][NextHash]_vars

(***************************************************************************)
(* Comparing: a call of calculateHammingDistance on two strings            *)
(***************************************************************************)
InitHamming ==
  /\ pc = "compare"
  /\ hash1 \in HammingInputs
  /\ hash2 \in HammingInputs
  /\ distance = 0
  /\ HashIdle /\ SearchIdle /\ ShotIdle /\ FeatIdle

CalculateHammingDistance ==
  /\ pc = "compare"
  /\ distance' = calculateHammingDistance(hash1, hash2)
  /\ pc' = "compared"
  /\ UNCHANGED <<hash1, hash2, hashVars, searchVars, shotVars, featVars>>

NextHamming == CalculateHammingDistance

SpecHamming == InitHamming /\ [][NextHamming]_vars

(***************************************************************************)
(* Properties of the hash                                                  *)
(***************************************************************************)
\* C1: the string computeDCTHash returns has exactly 16 characters, all of
\* them lowercase hexadecimal digits, for every list of 64 coefficients; the
\* conversion of the 64 binary digits through a Number never gives 17.
C1_HashFormat ==
  pc = "hashed" =>
    /\ Len(hexHash) = HashLen
    /\ \A i \in 1..Len(hexHash) : hexHash[i] \in HexChars

\* a hash was computed from binary digits that do not fit a Number: more than
\* 53 significant digits, and rounding changed the value
C1_Witness ==
  /\ pc = "hashed"
  /\ Len(hexHash) = HashLen
  /\ LET exact == StripLeadingZeros(
                    [i \in 1..NumCoeffs |-> IF HashBits(dctCoeffs)[i] = "1" THEN 1 ELSE 0])
     IN  Len(exact) > MantissaBits /\ ParseIntBinary(HashBits(dctCoeffs)) # exact

(***************************************************************************)
(* Properties of the distance                                              *)
(***************************************************************************)
\* the binary expansion of a hexadecimal string, four digits per character
Expansion(h) ==
  [i \in 1..(4 * Len(h)) |-> NibbleBits(HexValue(h[((i - 1) \div 4) + 1]))[((i - 1) % 4) + 1]]

\* the number of positions at which the expansions of two strings differ
BitDifference(h1, h2) ==
  Cardinality({i \in 1..(4 * Len(h1)) : Expansion(h1)[i] # Expansion(h2)[i]})

\* C2: for two 16-character hashes the distance is the number of positions,
\* out of 64, at which their binary expansions differ.
C2_CountsDifferingBits ==
  (pc = "compared" /\ Len(hash1) = HashLen /\ Len(hash2) = HashLen) =>
    distance = BitDifference(hash1, hash2)

\* C3: the distance is symmetric in its two 16-character arguments.
C3_Symmetric ==
  (pc = "compared" /\ Len(hash1) = HashLen /\ Len(hash2) = HashLen) =>
    distance = calculateHammingDistance(hash2, hash1)

\* C4: for two 16-character hashes the distance is an integer from 0 to 64,
\* and the sentinel is returned only for strings of different lengths.
C4_Range ==
  pc = "compared" =>
    /\ (Len(hash1) = HashLen /\ Len(hash2) = HashLen) => distance \in 0..NumBits
    /\ distance = Infinity => Len(hash1) # Len(hash2)

\* two 16-character hashes that differ were compared, one of them too large
\* for a Number to hold exactly
C4_Witness ==
  /\ pc = "compared"
  /\ Len(hash1) = HashLen /\ Len(hash2) = HashLen
  /\ Len(ParseIntHex(hash1)) > NumBits
  /\ distance > 1
  /\ distance <= NumBits

(***************************************************************************)
(* findSimilarArtwork                                                      *)
(***************************************************************************)
\* Exact matches (declared, and not used by the scan)
strictThreshold == 12

\* Similar images
moderateThreshold == 20

maxBits == 64

\* largest number of corpus entries
MaxCorpus == 3

\* a value of type string | null: None is null, Some(s) the string s
None == <<>>

Some(s) == <<s>>

\* !artwork.perceptual_hash: null and the empty string are both skipped
Falsy(h) == h = None \/ h[1] = <<>>

\* Math.max(0, Math.min(1, 1 - hammingDistance / maxBits)), in 64ths
calculateConfidence(hammingDistance) == Max(0, Min(maxBits, maxBits - hammingDistance))

\* the replacement test with <= in place of <
CloserOrEqual(d, closest) == closest = None \/ d <= closest[1].distance

\* !closestMatch || distance < closestMatch.distance
Closer(d, closest) == closest = None \/ d < closest[1].distance

\* one iteration of the loop over allArtworks
ScanStep(query, artwork, closest) ==
  IF Falsy(artwork.perceptual_hash)
    THEN closest
    ELSE LET d == calculateHammingDistance(query, artwork.perceptual_hash[1])
         IN  IF d <= moderateThreshold /\ Closer(d, closest)
               THEN Some([artwork |-> artwork, distance |-> d,
                          confidence |-> calculateConfidence(d)])
               ELSE closest

\* k leading f digits, zeros after them
Prefix(k) == [i \in 1..HashLen |-> IF i <= k THEN "f" ELSE "0"]

StoredHashes ==
  {None, Some(<<>>), Some(Prefix(0)), Some(Prefix(2)), Some(Prefix(5)),
   Some(Prefix(6)), Some(Prefix(7)), Some(Prefix(HashLen))}

QueryHashes == {Prefix(0), Prefix(1)}

Corpora ==
  UNION {[1..n -> StoredHashes] : n \in 0..MaxCorpus}

InitSearch ==
  /\ pc = "scan"
  /\ perceptualHash \in QueryHashes
  /\ \E c \in Corpora :
       allArtworks = [i \in 1..Len(c) |-> [id |-> i, perceptual_hash |-> c[i]]]
  /\ cursor = 1
  /\ closestMatch = None
  /\ searchResult = None
  /\ HashIdle /\ HammingIdle /\ ShotIdle /\ FeatIdle

ScanArtwork ==
  /\ pc = "scan"
  /\ cursor <= Len(allArtworks)
  /\ closestMatch' = ScanStep(perceptualHash, allArtworks[cursor], closestMatch)
  /\ cursor' = cursor + 1
  /\ UNCHANGED <<pc, perceptualHash, allArtworks, searchResult,
                 hashVars, hammingVars, shotVars, featVars>>

ReturnMatch ==
  /\ pc = "scan"
  /\ cursor > Len(allArtworks)
  /\ searchResult' = closestMatch
  /\ pc' = "returned"
  /\ UNCHANGED <<perceptualHash, allArtworks, cursor, closestMatch,
                 hashVars, hammingVars, shotVars, featVars>>

NextSearch == ScanArtwork \/ ReturnMatch

SpecSearch == InitSearch /\ [][NextSearch]_vars

(***************************************************************************)
(* Properties of the search                                                *)
(***************************************************************************)
\* the distance the matcher computes between the query and entry i
EntryDistance(i) ==
  calculateHammingDistance(perceptualHash, allArtworks[i].perceptual_hash[1])

\* the entries with a stored hash whose distance is within the threshold
Candidates ==
  {i \in 1..Len(allArtworks) :
     allArtworks[i].perceptual_hash # None /\ EntryDistance(i) <= 20}

\* C5: the search returns the entry of minimum distance among the entries
\* with a stored hash and a distance of at most 20, the first of them in
\* corpus order when several share that minimum, and returns null exactly
\* when there is no such entry.
C5_FirstClosest ==
  pc = "returned" =>
    /\ searchResult = None <=> Candidates = {}
    /\ Candidates # {} =>
         \E i \in Candidates :
           /\ \A j \in Candidates :
                EntryDistance(i) < EntryDistance(j)
                  \/ (EntryDistance(i) = EntryDistance(j) /\ i <= j)
           /\ searchResult[1].artwork = allArtworks[i]
           /\ searchResult[1].distance = EntryDistance(i)

\* a search returned the first of two different entries that tie on the
\* minimum distance, after skipping an entry without hash
C5_Witness ==
  /\ pc = "returned"
  /\ searchResult # None
  /\ \E i \in Candidates, j \in Candidates :
       /\ i < j
       /\ EntryDistance(i) = EntryDistance(j)
       /\ allArtworks[i].perceptual_hash # allArtworks[j].perceptual_hash
       /\ searchResult[1].artwork = allArtworks[i]
       /\ searchResult[1].distance > 0
  /\ \E k \in 1..Len(allArtworks) : allArtworks[k].perceptual_hash = None

\* C6: when every stored 16-character hash differs from the 16-character
\* query in more than 20 of its 64 bits, the search returns null.
C6_NoMatchBeyondThreshold ==
  (/\ pc = "returned"
   /\ Len(perceptualHash) = HashLen
   /\ \A i \in 1..Len(allArtworks) :
        (/\ allArtworks[i].perceptual_hash # None
         /\ Len(allArtworks[i].perceptual_hash[1]) = HashLen)
          => BitDifference(perceptualHash, allArtworks[i].perceptual_hash[1]) > 20)
    => searchResult = None

(***************************************************************************)
(* detectScreenshot                                                        *)
(*                                                                         *)
(* A decoded image is its width, its height and what the loops over its    *)
(* pixel buffer measure: `colors` distinct RGB triples; on the stride-5    *)
(* grid, `marked` sampled pixels of edge strength `hi` and the other       *)
(* sampled pixels of edge strength `lo`; and `flatBlocks` of the randomly  *)
(* placed 8x8 blocks with a luminance variance below 5.  Scores and        *)
(* confidences are in hundredths: the sums of the weights 0.20, 0.15,      *)
(* 0.25, 0.05 and 0.10 in binary floating point compare with 0.70 as the   *)
(* sums of 20, 15, 25, 5 and 10 compare with 70, in each of the 96         *)
(* combinations of signals.                                                *)
(***************************************************************************)
screenResolutions ==
  << [w |-> 1920, h |-> 1080], [w |-> 1440, h |-> 900], [w |-> 1366, h |-> 768],
     [w |-> 1024, h |-> 768], [w |-> 2560, h |-> 1440], [w |-> 3840, h |-> 2160],
     [w |-> 1280, h |-> 720], [w |-> 1600, h |-> 1200], [w |-> 2880, h |-> 1800] >>

\* ratio num/den, tolerance 0.01
commonRatios ==
  << [num |-> 16, den |-> 9, name |-> "16:9"], [num |-> 4, den |-> 3, name |-> "4:3"],
     [num |-> 3, den |-> 2, name |-> "3:2"], [num |-> 16, den |-> 10, name |-> "16:10"] >>

\* the weights of the signals, in hundredths
ResolutionWeight == 20

AspectWeight == 15

LowDiversityWeight == 25

LimitedPaletteWeight == 5

CrispEdgesWeight == 15

SharpRatioWeight == 10

BlockinessWeight == 10

\* the decision threshold 0.70, in hundredths
ScreenshotThreshold == 70

\* edgeStrength > 80 counts a sampled pixel as sharp
SharpStrength == 80

\* avgEdgeStrength > 180
CrispStrength == 180

\* the grid stride of the edge loop
Stride == 5

\* randomly placed blocks
samples == 100

\* DETECTION 1: (width, height) or its transpose is a listed resolution
ResolutionMatch(im) ==
  \E i \in 1..Len(screenResolutions) :
    \/ im.width = screenResolutions[i].w /\ im.height = screenResolutions[i].h
    \/ im.width = screenResolutions[i].h /\ im.height = screenResolutions[i].w

\* Math.abs(width / height - ratio) < 0.01
RatioMatch(im, r) == Abs(r.den * im.width - r.num * im.height) * 100 < r.den * im.height

\* DETECTION 2
AspectMatch(im) == \E i \in 1..Len(commonRatios) : RatioMatch(im, commonRatios[i])

\* the first ratio of the list that matches (the loop breaks there)
FirstRatio(im) ==
  commonRatios[CHOOSE i \in 1..Len(commonRatios) :
                 /\ RatioMatch(im, commonRatios[i])
                 /\ \A j \in 1..(i - 1) : ~RatioMatch(im, commonRatios[j])]

\* data.length / 4
TotalPixels(im) == im.width * im.height

\* DETECTION 3: colorDiversity < 0.03, else colorDiversity < 0.06
LowDiversity(im) == 100 * im.colors < 3 * TotalPixels(im)

LimitedPalette(im) == ~LowDiversity(im) /\ 100 * im.colors < 6 * TotalPixels(im)

\* iterations of for (v = first; v < limit; v += 5): v takes the values
\* first, first + 5, ... below limit
LoopCount(first, limit) ==
  IF first < limit THEN ((limit - 1 - first) \div Stride) + 1 ELSE 0

\* the pixels the edge loop samples
SampleCount(im) == LoopCount(1, im.height - 1) * LoopCount(1, im.width - 1)

totalEdgeStrength(im) == im.marked * im.hi + (SampleCount(im) - im.marked) * im.lo

edgePixels(im) ==
  (IF im.hi > SharpStrength THEN im.marked ELSE 0)
    + (IF im.lo > SharpStrength THEN SampleCount(im) - im.marked ELSE 0)

\* DETECTION 4: totalEdgeStrength / (width * height / 25) > 180
CrispEdges(im) ==
  totalEdgeStrength(im) * Stride * Stride > CrispStrength * im.width * im.height

\* edgePixels / (width * height / 25) > 0.25
SharpRatio(im) == edgePixels(im) * Stride * Stride * 4 > im.width * im.height

\* DETECTION 5: blockiness / samples > 0.35
Blockiness(im) == im.flatBlocks * 100 > 35 * samples

detectionScoreOf(im) ==
  (IF ResolutionMatch(im) THEN ResolutionWeight ELSE 0)
    + (IF AspectMatch(im) THEN AspectWeight ELSE 0)
    + (IF LowDiversity(im) THEN LowDiversityWeight
       ELSE IF LimitedPalette(im) THEN LimitedPaletteWeight ELSE 0)
    + (IF CrispEdges(im) THEN CrispEdgesWeight ELSE 0)
    + (IF SharpRatio(im) THEN SharpRatioWeight ELSE 0)
    + (IF Blockiness(im) THEN BlockinessWeight ELSE 0)

\* Math.round(colorDiversity * 100)
DiversityPercent(im) == (200 * im.colors + TotalPixels(im)) \div (2 * TotalPixels(im))

reasonsOf(im) ==
  (IF ResolutionMatch(im)
     THEN <<"Exact screen resolution: " \o ToString(im.width) \o "x" \o ToString(im.height)>>
     ELSE <<>>)
    \o (IF AspectMatch(im)
          THEN <<"Standard " \o FirstRatio(im).name \o " aspect ratio">>
          ELSE <<>>)
    \o (IF LowDiversity(im)
          THEN <<"Extremely low color diversity: only " \o ToString(DiversityPercent(im))
                   \o "% unique colors">>
          ELSE IF LimitedPalette(im) THEN <<"Limited color palette detected">> ELSE <<>>)
    \o (IF CrispEdges(im) THEN <<"Unusually crisp edges (text/UI-like)">> ELSE <<>>)
    \o (IF SharpRatio(im) THEN <<"High number of sharp transitions">> ELSE <<>>)
    \o (IF Blockiness(im) THEN <<"JPEG compression blockiness detected">> ELSE <<>>)

\* the decision with >= in place of >
AtThreshold(score) == score >= ScreenshotThreshold

\* detectionScore > 0.70
OverThreshold(score) == score > ScreenshotThreshold

\* the verdict of a completed analysis; reason holds the reasons joined, or Unknown
AnalysisVerdict(score, rs) ==
  [isScreenshot |-> OverThreshold(score),
   confidence   |-> Min(100, score),
   reason       |-> IF Len(rs) > 0 THEN rs ELSE <<"Unknown">>]

FailureVerdict(why) == [isScreenshot |-> FALSE, confidence |-> 0, reason |-> <<why>>]

\* an onerror handler that rejects, as the one of generatePerceptualHash does
OnErrorRejects == [promise |-> "rejected", verdict |-> <<"Failed to load image">>]

\* img.onerror: resolve({ isScreenshot: false, confidence: 0, reason: 'Unable to load image' })
OnErrorSettles ==
  [promise |-> "fulfilled", verdict |-> FailureVerdict("Unable to load image")]

----------------------------------------------------------------------------
\* The images of the model
ImageSizes ==
  { <<1920, 1080>>, <<1080, 1920>>, <<1366, 768>>, <<1440, 900>>, <<1500, 1000>>,
    <<800, 600>>, <<1000, 1000>>, <<1001, 1001>>, <<3, 3>> }

ColorChoices(t) == {1, 2, 3, (3 * t) \div 100, (6 * t) \div 100, t} \cap 1..t

MarkChoices(n) == {0, n \div 4, (n \div 4) + 1, n} \cap 0..n

StrengthsHi == {100, 200, 510}

StrengthsLo == {0, 80}

FlatChoices == {0, 35, 36, samples}

\* every block lies inside the buffer: x = floor(random * (width - 10)) >= 0
BlocksInBounds(im) == im.width >= 10 /\ im.height >= 10

\* the edge strengths that occur among the sampled pixels
Strengths(im) ==
  (IF im.marked > 0 THEN {im.hi} ELSE {})
    \cup (IF im.marked < SampleCount(im) THEN {im.lo} ELSE {})

\* the fewest distinct colours that give these strengths: two grey levels d
\* apart give the strengths 0, d and 2d only
MinColors(im) ==
  LET nz == Strengths(im) \ {0}
  IN  IF nz = {} THEN 1
      ELSE IF \E d \in nz : nz \subseteq {d, 2 * d} THEN 2
      ELSE 3

\* measurements that some pixel buffer of this size gives
Feasible(im) ==
  /\ im.colors >= MinColors(im)
  \* outside the buffer a read is undefined and the variance NaN
  /\ ~BlocksInBounds(im) => im.flatBlocks = 0
  \* one colour: every block is flat
  /\ (im.colors = 1 /\ BlocksInBounds(im)) => im.flatBlocks = samples
  \* every block holds a sampled pixel and its two neighbours
  /\ (SampleCount(im) > 0 /\ \A e \in Strengths(im) : e >= SharpStrength)
       => im.flatBlocks = 0

Images(sizes) ==
  { im \in UNION { [width : {sz[1]}, height : {sz[2]},
                    colors : ColorChoices(sz[1] * sz[2]),
                    marked : MarkChoices(LoopCount(1, sz[2] - 1) * LoopCount(1, sz[1] - 1)),
                    hi : StrengthsHi, lo : StrengthsLo,
                    flatBlocks : FlatChoices] : sz \in sizes } :
      Feasible(im) }

----------------------------------------------------------------------------
\* new Promise(...): the handlers are set and the image starts to load
InitShot ==
  /\ pc = "loading"
  /\ img \in Images(ImageSizes)
  /\ event = "none"
  /\ promise = "pending"
  /\ verdict = <<>>
  /\ detectionScore = 0
  /\ reasons = <<>>
  /\ HashIdle /\ HammingIdle /\ SearchIdle /\ FeatIdle

\* img.onerror
ImgOnError ==
  /\ pc = "loading"
  /\ event' = "error"
  /\ promise' = OnErrorSettles.promise
  /\ verdict' = OnErrorSettles.verdict
  /\ pc' = "settled"
  /\ UNCHANGED <<img, detectionScore, reasons, hashVars, hammingVars, searchVars, featVars>>

\* img.onload, canvas.getContext('2d') returns null
ImgOnLoadNoContext ==
  /\ pc = "loading"
  /\ event' = "nocontext"
  /\ promise' = "fulfilled"
  /\ verdict' = FailureVerdict("Unable to analyze")
  /\ pc' = "settled"
  /\ UNCHANGED <<img, detectionScore, reasons, hashVars, hammingVars, searchVars, featVars>>

\* img.onload, a statement of the try block throws: the catch clause resolves
ImgOnLoadThrows ==
  /\ pc = "loading"
  /\ event' = "exception"
  /\ promise' = "fulfilled"
  /\ verdict' = FailureVerdict("Error in analysis")
  /\ pc' = "settled"
  /\ UNCHANGED <<img, detectionScore, reasons, hashVars, hammingVars, searchVars, featVars>>

\* img.onload, the analysis runs to its end
ImgOnLoadAnalyzed ==
  /\ pc = "loading"
  /\ event' = "analyzed"
  /\ detectionScore' = detectionScoreOf(img)
  /\ reasons' = reasonsOf(img)
  /\ promise' = "fulfilled"
  /\ verdict' = AnalysisVerdict(detectionScoreOf(img), reasonsOf(img))
  /\ pc' = "settled"
  /\ UNCHANGED <<img, hashVars, hammingVars, searchVars, featVars>>

NextShot == ImgOnError \/ ImgOnLoadNoContext \/ ImgOnLoadThrows \/ ImgOnLoadAnalyzed

SpecShot == InitShot /\ [][NextShot]_vars

(***************************************************************************)
(* Properties of the screenshot heuristic                                  *)
(***************************************************************************)
\* C7: the promise of detectScreenshot never rejects; after any of the four
\* load events it is fulfilled with a verdict, and after a load error, a
\* missing drawing context or an exception in the analysis that verdict is
\* isScreenshot = false, confidence = 0 and a non-empty reason.
C7_NeverRejects ==
  /\ promise # "rejected"
  /\ pc = "settled" =>
       /\ promise = "fulfilled"
       /\ verdict.isScreenshot \in BOOLEAN
       /\ event \in {"error", "nocontext", "exception"} =>
            /\ verdict.isScreenshot = FALSE
            /\ verdict.confidence = 0
            /\ Len(verdict.reason) = 1
            /\ verdict.reason[1] # ""

\* the image failed to load and the promise was fulfilled with the fallback
C7_Witness ==
  /\ pc = "settled"
  /\ event = "error"
  /\ promise = "fulfilled"
  /\ verdict = [isScreenshot |-> FALSE, confidence |-> 0,
                reason |-> <<"Unable to load image">>]

\* the sum of the weights of the signals that hold for the image
WeightSum ==
  (IF ResolutionMatch(img) THEN 20 ELSE 0)
    + (IF AspectMatch(img) THEN 15 ELSE 0)
    + (IF LowDiversity(img) THEN 25 ELSE 0)
    + (IF LimitedPalette(img) THEN 5 ELSE 0)
    + (IF CrispEdges(img) THEN 15 ELSE 0)
    + (IF SharpRatio(img) THEN 10 ELSE 0)
    + (IF Blockiness(img) THEN 10 ELSE 0)

NoSignal ==
  ~(\/ ResolutionMatch(img) \/ AspectMatch(img) \/ LowDiversity(img)
    \/ LimitedPalette(img) \/ CrispEdges(img) \/ SharpRatio(img) \/ Blockiness(img))

\* resolution, low diversity and crisp edges, and neither the sharp-pixel
\* ratio nor blockiness
ScenarioSignals ==
  /\ ResolutionMatch(img) /\ LowDiversity(img) /\ CrispEdges(img)
  /\ ~SharpRatio(img) /\ ~Blockiness(img)

\* C8: after a completed analysis the score is the sum of the weights of the
\* signals that hold, isScreenshot is true exactly when the score is above
\* 0.70, the confidence is min(1, score), the reason is the placeholder
\* exactly when no signal fired; resolution + diversity + crisp edges give
\* 0.60 and false, and with the aspect ratio 0.75 and true.
C8_Verdict ==
  event = "analyzed" =>
    /\ detectionScore = WeightSum
    /\ verdict.isScreenshot <=> WeightSum > 70
    /\ verdict.confidence = Min(100, WeightSum)
    /\ verdict.reason = <<"Unknown">> <=> NoSignal
    /\ (ScenarioSignals /\ ~AspectMatch(img)) =>
         detectionScore = 60 /\ verdict.isScreenshot = FALSE
    /\ (ScenarioSignals /\ AspectMatch(img)) =>
         detectionScore = 75 /\ verdict.isScreenshot = TRUE

\* an image of a screen resolution, with few colours and crisp edges and no
\* other signal, was analysed: 0.60, not a screenshot
C8_Witness ==
  /\ event = "analyzed"
  /\ ScenarioSignals /\ ~AspectMatch(img)
  /\ detectionScore = 60
  /\ verdict.isScreenshot = FALSE
  /\ Len(verdict.reason) = 3

\* the same signals and the aspect ratio: 0.75, a screenshot
C8_ScenarioPositive ==
  /\ event = "analyzed"
  /\ ScenarioSignals /\ AspectMatch(img)
  /\ detectionScore = 75
  /\ verdict.isScreenshot = TRUE

\* a score of exactly 0.70 is not a screenshot
C8_AtThreshold ==
  event = "analyzed" /\ detectionScore = 70 /\ verdict.isScreenshot = FALSE

Fired(reason) == \E i \in 1..Len(reasons) : reasons[i] = reason

\* C10: the sharp-transitions signal fires exactly when more than a quarter
\* of the pixels sampled on the stride-5 grid have an edge strength above 80,
\* and the crisp-edges signal exactly when the mean edge strength of the
\* sampled pixels is above 180.
C10_OverSampledPixels ==
  event = "analyzed" =>
    /\ Fired("High number of sharp transitions")
         <=> (SampleCount(img) > 0 /\ 4 * edgePixels(img) > SampleCount(img))
    /\ Fired("Unusually crisp edges (text/UI-like)")
         <=> (SampleCount(img) > 0 /\ totalEdgeStrength(img) > 180 * SampleCount(img))

(***************************************************************************)
(* analyzeImageFeatures: computeColorHistogram and computeEdgeFeatures     *)
(*                                                                         *)
(* A pixel buffer is the flat RGBA array of the canvas.  A histogram entry *)
(* count / total is the pair <<count, total>>.  The colours of the model   *)
(* have a luminance 0.299 r + 0.587 g + 0.114 b that is a whole number in  *)
(* binary floating point too (0 and 40), so that the Sobel sums are exact. *)
(* computeTextureFeatures is not modelled.                                 *)
(***************************************************************************)
bins == 16

edgeBins == 10

\* width and height of the buffers of the model (the canvas is 256 x 256)
FeatWidth == 4

FeatHeight == 3

sobelX == <<-1, 0, 1, -2, 0, 2, -1, 0, 1>>

sobelY == <<-1, -2, -1, 0, 0, 0, 1, 2, 1>>

\* data[idx], idx counted from 0
At(data, idx) == data[idx + 1]

\* 0.299 * data[idx] + 0.587 * data[idx + 1] + 0.114 * data[idx + 2]
Gray(data, idx) ==
  (299 * At(data, idx) + 587 * At(data, idx + 1) + 114 * At(data, idx + 2)) \div 1000

\* the pixels whose channel ch (0, 1, 2) falls in bin b
ChannelCount(pixels, ch, b) ==
  Cardinality({p \in 0..((Len(pixels) \div 4) - 1) :
                 At(pixels, 4 * p + ch) \div (256 \div bins) = b})

computeColorHistogram(pixels) ==
  [k \in 1..(bins * 3) |->
     <<ChannelCount(pixels, (k - 1) \div bins, (k - 1) % bins), Len(pixels) \div 4>>]

\* gx or gy at the pixel (x, y), for the kernel given
Convolve(im, x, y, kernel) ==
  LET term(k) == Gray(im.data, (((y + (k \div 3) - 1) * im.width) + (x + (k % 3) - 1)) * 4)
                   * kernel[k + 1]
  IN  term(0) + term(1) + term(2) + term(3) + term(4) + term(5) + term(6) + term(7) + term(8)

\* gx * gx + gy * gy: the square of the magnitude pushed for (x, y)
EdgeSquared(im, x, y) ==
  LET gx == Convolve(im, x, y, sobelX)
      gy == Convolve(im, x, y, sobelY)
  IN  gx * gx + gy * gy

\* the interior pixels, in the order of the loops
Interior(im) == {<<x, y>> \in (1..(im.width - 2)) \X (1..(im.height - 2)) : TRUE}

\* Math.min(9, Math.floor((edge / maxEdge) * 10)) as a set: the bin counted, or
\* none when maxEdge is 0, where 0 / 0 is NaN and histogram[NaN]++ counts nothing
EdgeBin(e2, m2) ==
  IF m2 = 0
    THEN {}
    ELSE {Min(edgeBins - 1,
              CHOOSE b \in 0..edgeBins :
                b * b * m2 <= 100 * e2 /\ (b + 1) * (b + 1) * m2 > 100 * e2)}

computeEdgeFeatures(im) ==
  LET maxSq == CHOOSE m \in {EdgeSquared(im, q[1], q[2]) : q \in Interior(im)} :
                 \A q \in Interior(im) : EdgeSquared(im, q[1], q[2]) <= m
  IN  [b \in 1..edgeBins |->
         << Cardinality({q \in Interior(im) :
                           (b - 1) \in EdgeBin(EdgeSquared(im, q[1], q[2]), maxSq)}),
            Cardinality(Interior(im)) >>]

\* most pixels of the second colour in a buffer
MaxDots == 3

\* the colours of the model's buffers, as RGBA: the background and the dots
Palette == << <<0, 0, 0, 255>>, <<0, 26, 217, 255>> >>

\* the buffers of the first colour with up to MaxDots pixels of the second
Buffers(width, height) ==
  { [i \in 1..(4 * width * height) |->
       Palette[IF \E k \in 1..MaxDots : f[k] = ((i - 1) \div 4) + 1 THEN 2 ELSE 1]
              [((i - 1) % 4) + 1]] :
      f \in [1..MaxDots -> 0..(width * height)] }

\* img.onload has drawn the image: getImageData returned the buffer
InitFeatures ==
  /\ pc = "extract"
  /\ \E d \in Buffers(FeatWidth, FeatHeight) :
       imageData = [width |-> FeatWidth, height |-> FeatHeight, data |-> d]
  /\ colorHistogram = <<>>
  /\ edgeFeatures = <<>>
  /\ HashIdle /\ HammingIdle /\ SearchIdle /\ ShotIdle

AnalyzeImageFeatures ==
  /\ pc = "extract"
  /\ colorHistogram' = computeColorHistogram(imageData.data)
  /\ edgeFeatures' = computeEdgeFeatures(imageData)
  /\ pc' = "extracted"
  /\ UNCHANGED <<imageData, hashVars, hammingVars, searchVars, shotVars>>

NextFeatures == AnalyzeImageFeatures

SpecFeatures == InitFeatures /\ [][NextFeatures]_vars

(***************************************************************************)
(* Properties of the feature vector                                        *)
(***************************************************************************)
RECURSIVE SumCounts(_, _, _)
SumCounts(h, from, to) ==
  IF from > to THEN 0 ELSE h[from][1] + SumCounts(h, from + 1, to)

\* a group of entries count / total sums to 1
SumsToOne(h, from, to) == SumCounts(h, from, to) = h[from][2]

\* C9: every histogram entry is non-negative, each of the three 16-bin
\* colour groups sums to 1, and the 10-bin edge histogram sums to 1, for
\* every buffer, one of a single colour included.
C9_HistogramsSumToOne ==
  pc = "extracted" =>
    /\ \A k \in 1..Len(colorHistogram) : colorHistogram[k][1] >= 0
    /\ \A k \in 1..Len(edgeFeatures) : edgeFeatures[k][1] >= 0
    /\ \A g \in 0..2 : SumsToOne(colorHistogram, 16 * g + 1, 16 * g + 16)
    /\ SumsToOne(edgeFeatures, 1, 10)

====
